---- MODULE Spec2Model ----
(***************************************************************************)
(* A model of the Langbly JavaScript client (src/src/client.ts): the       *)
(* constructor, the three public operations translate, detect and          *)
(* languages, and the retrying request helper fetchWithRetry with its      *)
(* helpers throwForStatus, parseRetryAfter, getRetryDelay and backoffDelay.*)
(*                                                                         *)
(* One action is one run of the code between two awaits: JavaScript runs   *)
(* a continuation to its next await without interleaving.                  *)
(*                                                                         *)
(* JavaScript values: an optional value (undefined, null, a missing        *)
(* header or option) is the empty sequence None, a present one is the      *)
(* one-element sequence Some(v).  A string the code parses (the            *)
(* Retry-After header) is a sequence of characters.  A number produced by  *)
(* Number() is a record [kind, milli]: kind is "finite", "nan" or "inf",   *)
(* and milli is the value in thousandths, so that value * 1000 is milli.   *)
(* Delays are integers, in milliseconds.                                   *)
(***************************************************************************)
EXTENDS Integers, Sequences, FiniteSets, TLC

VARIABLES options, client, calls

vars == <<options, client, calls>>

None == <<>>

Some(v) == <<v>>

\* JavaScript's x ?? d
OrElse(x, d) == IF x = None THEN d ELSE x[1]

Min(a, b) == IF a <= b THEN a ELSE b

(***************************************************************************)
(* Bounds of the model.                                                    *)
(***************************************************************************)
\* options.maxRetries ranges over -NegRetries .. MaxRetriesBound, or is not given
MaxRetriesBound == 6

NegRetries == 2

\* the longest array of texts passed to translate, and of items the server returns
MaxTexts == 2

(***************************************************************************)
(* Program constants.                                                      *)
(***************************************************************************)
DEFAULT_TIMEOUT == 30000

DEFAULT_MAX_RETRIES == 2

BACKOFF_BASE == 500

BACKOFF_CAP == 10000

RETRY_AFTER_CAP == 30000

RETRIABLE_STATUS_CODES == {429, 500, 502, 503, 504}

DEFAULT_BASE_URL == <<"https://api.langbly.com">>

USER_AGENT == "langbly-js/0.1.0"

(***************************************************************************)
(* Number(string), for the strings a Retry-After header holds here: an     *)
(* optional sign, digits, an optional fraction of up to three digits.      *)
(* The empty string converts to 0, "Infinity" to an infinity, anything     *)
(* else (an HTTP date, a word) to NaN.                                     *)
(***************************************************************************)
Digits == {"0", "1", "2", "3", "4", "5", "6", "7", "8", "9"}

DigitVal(ch) ==
    CASE ch = "0" -> 0 [] ch = "1" -> 1 [] ch = "2" -> 2 [] ch = "3" -> 3
      [] ch = "4" -> 4 [] ch = "5" -> 5 [] ch = "6" -> 6 [] ch = "7" -> 7
      [] ch = "8" -> 8 [] ch = "9" -> 9

AllDigits(s) == \A i \in 1..Len(s) : s[i] \in Digits

RECURSIVE DigitsValue(_)
DigitsValue(s) ==
    IF s = <<>> THEN 0
    ELSE 10 * DigitsValue(SubSeq(s, 1, Len(s) - 1)) + DigitVal(s[Len(s)])

\* the thousandths a fraction's digits stand for: "5" is 500, "25" is 250
FractionMilli(f) ==
    CASE Len(f) = 0 -> 0
      [] Len(f) = 1 -> 100 * DigitsValue(f)
      [] Len(f) = 2 -> 10 * DigitsValue(f)
      [] OTHER -> DigitsValue(SubSeq(f, 1, 3))

NaN == [kind |-> "nan", milli |-> 0]

Finite(m) == [kind |-> "finite", milli |-> m]

Infinity(sign) == [kind |-> "inf", milli |-> sign]

UnsignedNumber(s) ==
    LET dots == {i \in 1..Len(s) : s[i] = "."}
    IN  IF s = <<"Infinity">> THEN Infinity(1)
        ELSE IF dots = {}
        THEN IF Len(s) > 0 /\ AllDigits(s) THEN Finite(1000 * DigitsValue(s)) ELSE NaN
        ELSE LET d == CHOOSE i \in dots : \A j \in dots : i <= j
                 ip == SubSeq(s, 1, d - 1)
                 fp == SubSeq(s, d + 1, Len(s))
             IN  IF AllDigits(ip) /\ AllDigits(fp) /\ Len(ip) + Len(fp) > 0
                 THEN Finite(1000 * DigitsValue(ip) + FractionMilli(fp))
                 ELSE NaN

Negate(n) == [n EXCEPT !.milli = 0 - @]

JsNumber(s) ==
    IF s = <<>> THEN Finite(0)
    ELSE IF s[1] = "-" THEN (LET n == UnsignedNumber(Tail(s))
                             IN  IF n.kind = "nan" THEN n ELSE Negate(n))
    ELSE IF s[1] = "+" THEN UnsignedNumber(Tail(s))
    ELSE UnsignedNumber(s)

\* Number.isFinite
IsFinite(n) == n.kind = "finite"

\* a string is truthy unless it is empty; null and undefined are falsy
StrTruthy(opt) == opt # None /\ opt[1] # ""

\* the same for a string held as a sequence of characters
TextTruthy(opt) == opt # None /\ opt[1] # <<>>

(***************************************************************************)
(* The error classes.  An error is [cls, status, code, retryAfter,         *)
(* message]; a message is [tmpl, attempts, text], where tmpl "plain" is    *)
(* the text itself and tmpl "attempts" is                                  *)
(* `Request failed after ${attempts} attempts: ${text}`.                   *)
(***************************************************************************)
Plain(t) == [tmpl |-> "plain", attempts |-> 0, text |-> t]

\* new LangblyError(message, status = 0, code = "")
LangblyError(message, status, code) ==
    [cls |-> "LangblyError", status |-> status, code |-> code,
     retryAfter |-> None, message |-> message]

\* new RateLimitError(message, retryAfter = null)
RateLimitError(message, retryAfter) ==
    [cls |-> "RateLimitError", status |-> 429, code |-> "RATE_LIMITED",
     retryAfter |-> retryAfter, message |-> message]

\* new AuthenticationError(message)
AuthenticationError(message) ==
    [cls |-> "AuthenticationError", status |-> 401, code |-> "UNAUTHENTICATED",
     retryAfter |-> None, message |-> message]

\* an error of the platform (fetch, AbortSignal, JSON), not of this library
RawError(cls, text) ==
    [cls |-> cls, status |-> 0, code |-> "", retryAfter |-> None,
     message |-> Plain(text)]

\* the classes x instanceof LangblyError holds for
LangblyErrorClasses == {"LangblyError", "RateLimitError", "AuthenticationError"}

(***************************************************************************)
(* The constructor.  A URL is a sequence of pieces; "/" is a piece.        *)
(***************************************************************************)
\* s.replace(/\/$/, "")
StripTrailingSlash(s) ==
    IF Len(s) > 0 /\ s[Len(s)] = "/" THEN SubSeq(s, 1, Len(s) - 1) ELSE s

\* a constructor without the apiKey test
Construct_Unchecked(o) ==
    Some([apiKey     |-> OrElse(o.apiKey, ""),
          baseUrl    |-> StripTrailingSlash(OrElse(o.baseUrl, DEFAULT_BASE_URL)),
          timeout    |-> OrElse(o.timeout, DEFAULT_TIMEOUT),
          maxRetries |-> OrElse(o.maxRetries, DEFAULT_MAX_RETRIES)])

\* the client new Langbly(o) makes, or None when it throws "apiKey is required"
Construct(o) ==
    IF ~StrTruthy(o.apiKey) THEN None
    ELSE Some([apiKey     |-> o.apiKey[1],
               baseUrl    |-> StripTrailingSlash(OrElse(o.baseUrl, DEFAULT_BASE_URL)),
               timeout    |-> OrElse(o.timeout, DEFAULT_TIMEOUT),
               maxRetries |-> OrElse(o.maxRetries, DEFAULT_MAX_RETRIES)])

(***************************************************************************)
(* Responses.  A response is [status, retryAfter]: retryAfter is what      *)
(* resp.headers.get("retry-after") returns, None when the header is        *)
(* absent.  The body is read later, by resp.json().                        *)
(***************************************************************************)
\* resp.ok
Ok(resp) == resp.status >= 200 /\ resp.status <= 299

\* resp.statusText
StatusText(resp) == "statusText"

\* a retriable set that forgot the 5xx statuses
IsRetriable_Only429(status) == status = 429

\* a retriable set that takes every failing status
IsRetriable_Every(status) == TRUE

\* RETRIABLE_STATUS_CODES.has(status)
IsRetriable(status) == status \in RETRIABLE_STATUS_CODES

\* value * 1000, for a finite value held in thousandths
Times1000(n) == n.milli

\* parseRetryAfter without the Number.isFinite test
parseRetryAfter_Unchecked(resp) ==
    IF ~TextTruthy(resp.retryAfter) THEN None
    ELSE Some(JsNumber(resp.retryAfter[1]))

parseRetryAfter(resp) ==
    LET header == resp.retryAfter
    IN  IF ~TextTruthy(header) THEN None
        ELSE LET value == JsNumber(header[1])
             IN  IF IsFinite(value) THEN Some(value) ELSE None

\* getRetryDelay that never reads the header
getRetryDelay_NoHint(resp, attempt) == Min(BACKOFF_BASE * 2^attempt, BACKOFF_CAP)

getRetryDelay(resp, attempt) ==
    LET retryAfter == resp.retryAfter
    IN  IF TextTruthy(retryAfter) /\ IsFinite(JsNumber(retryAfter[1]))
        THEN Min(Times1000(JsNumber(retryAfter[1])), RETRY_AFTER_CAP)
        ELSE Min(BACKOFF_BASE * 2^attempt, BACKOFF_CAP)

\* whether getRetryDelay takes the delay from the header
UsesRetryAfter(resp) ==
    TextTruthy(resp.retryAfter) /\ IsFinite(JsNumber(resp.retryAfter[1]))

\* backoffDelay without the ceiling
backoffDelay_NoCap(attempt) == BACKOFF_BASE * 2^attempt

backoffDelay(attempt) == Min(BACKOFF_BASE * 2^attempt, BACKOFF_CAP)

\* an off-by-one loop bound: one attempt too many
LoopCond_OneMore(attempt, maxRetries) == attempt <= maxRetries + 1

\* the loop condition of fetchWithRetry: attempt <= this.maxRetries
LoopCond(attempt, maxRetries) == attempt <= maxRetries

\* the test of both retry branches: attempt < this.maxRetries
CanRetry(attempt, maxRetries) == attempt < maxRetries

(***************************************************************************)
(* throwForStatus.  errBody is what resp.json() gave: [parsed, message,    *)
(* status], parsed FALSE when it rejected, message and status the          *)
(* optional err.error.message and err.error.status.                        *)
(***************************************************************************)
throwForStatus(resp, errBody) ==
    LET message == IF errBody.parsed
                   THEN OrElse(errBody.message, StatusText(resp))
                   ELSE StatusText(resp)
        code    == IF errBody.parsed THEN OrElse(errBody.status, "") ELSE ""
    IN  IF resp.status = 401 THEN AuthenticationError(Plain(message))
        ELSE IF resp.status = 429
        THEN RateLimitError(Plain(message), parseRetryAfter(resp))
        ELSE LangblyError(Plain(message), resp.status, code)

(***************************************************************************)
(* Requests.  A JSON value is a string or an array of strings; a body is   *)
(* an object with optional members; JSON.stringify gives its members in    *)
(* insertion order, leaving out the undefined ones.                        *)
(***************************************************************************)
JStr(str) == [t |-> "string", s |-> str, a |-> <<>>]

JArr(arr) == [t |-> "array", s |-> "", a |-> arr]

Member(key, opt) == IF opt = None THEN <<>> ELSE <<[key |-> key, value |-> opt[1]]>>

JsonStringify(body) ==
    Member("q", body.q) \o Member("target", body.target)
        \o Member("source", body.source) \o Member("format", body.format)

\* a text argument: a string, or an array of strings
StringText(str) == [isArray |-> FALSE, str |-> str, items |-> <<>>]

ArrayText(items) == [isArray |-> TRUE, str |-> "", items |-> items]

TRANSLATE_PATH == <<"/language/translate/v2">>

DETECT_PATH == <<"/language/translate/v2/detect">>

LANGUAGES_PATH == <<"/language/translate/v2/languages">>

\* a body that carries only the first text of an array
TranslateBody_FirstOnly(text, topts) ==
    [q      |-> Some(JArr(IF ~text.isArray THEN <<text.str>>
                          ELSE IF Len(text.items) > 1 THEN <<text.items[1]>>
                          ELSE text.items)),
     target |-> Some(JStr(topts.target)),
     source |-> IF StrTruthy(topts.source) THEN Some(JStr(topts.source[1])) ELSE None,
     format |-> IF StrTruthy(topts.format) THEN Some(JStr(topts.format[1])) ELSE None]

\* the body translate builds (lines 102-106)
TranslateBody(text, topts) ==
    LET q == IF text.isArray THEN text.items ELSE <<text.str>>
    IN  [q      |-> Some(JArr(q)),
         target |-> Some(JStr(topts.target)),
         source |-> IF StrTruthy(topts.source) THEN Some(JStr(topts.source[1])) ELSE None,
         format |-> IF StrTruthy(topts.format) THEN Some(JStr(topts.format[1])) ELSE None]

\* the body detect builds: { q: text }
DetectBody(text) ==
    [q |-> Some(JStr(text)), target |-> None, source |-> None, format |-> None]

\* the init postWithRetry passes to fetchWithRetry
PostInit(body) ==
    [method  |-> "POST",
     headers |-> Some([ContentType |-> "application/json"]),
     body    |-> Some(JsonStringify(body))]

\* the init languages passes: { method: "GET" }
GetInit == [method |-> "GET", headers |-> None, body |-> None]

\* the path and query string languages builds (lines 139-142)
LanguagesUrl(lopts) ==
    LANGUAGES_PATH \o
        (IF StrTruthy(lopts.target) THEN <<"?", "target=", lopts.target[1]>> ELSE <<>>)

\* the headers fetchWithRetry builds (lines 173-177)
RequestHeaders(cl, init) ==
    [Authorization |-> <<"Bearer ", cl.apiKey>>,
     UserAgent     |-> USER_AGENT,
     ContentType   |-> IF init.headers = None THEN None
                       ELSE Some(init.headers[1].ContentType)]

\* what one attempt hands to fetch (lines 185-189)
FetchArgs(cl, req) ==
    [url     |-> req.url,
     method  |-> req.init.method,
     body    |-> req.init.body,
     headers |-> req.headers,
     timeout |-> cl.timeout]

(***************************************************************************)
(* Results.  What resp.json() settles to is [kind, list, err]: kind "data" *)
(* with the list the operation reads (data.data.translations,              *)
(* data.data.detections[0], data.data.languages), kind "malformed" for     *)
(* JSON without that list, kind "reject" with the error it rejected with.  *)
(* A result is [kind, items]: an array, one object, or undefined.          *)
(***************************************************************************)
ArrayResult(items) == [kind |-> "array", items |-> items]

ObjectResult(item) == [kind |-> "object", items |-> <<item>>]

UndefinedResult == [kind |-> "undefined", items |-> <<>>]

SeqMap(F(_), list) == [i \in 1..Len(list) |-> F(list[i])]

\* the Translation made of one item of the response (lines 111-115)
Translation(item, topts) ==
    [text   |-> item.translatedText,
     source |-> OrElse(item.detectedSourceLanguage, OrElse(topts.source, "")),
     model  |-> item.model]

\* what translate returns for the response's list (lines 110-118)
TranslateResult(text, topts, list) ==
    LET T(item) == Translation(item, topts)
        translations == SeqMap(T, list)
    IN  IF text.isArray THEN ArrayResult(translations)
        ELSE IF Len(translations) > 0 THEN ObjectResult(translations[1])
        ELSE UndefinedResult

\* what detect returns for detections[0] (lines 128-132)
DetectResult(list) ==
    ObjectResult([language   |-> list[1].language,
                  confidence |-> OrElse(list[1].confidence, 0)])

\* what languages returns (lines 149-154)
LanguagesResult(list) ==
    LET L(lang) == [code |-> lang.language, name |-> lang.name]
    IN  ArrayResult(SeqMap(L, list))

(***************************************************************************)
(* The state.  options is the argument of the constructor, client the      *)
(* client it made (None when it threw).  calls[c] is one call of a public  *)
(* operation: pc is where it is suspended ("idle" before it is made,       *)
(* "fetch" awaiting fetch, "sleep" awaiting the timer, "errbody" awaiting  *)
(* resp.json() in throwForStatus, "body" awaiting resp.json() of an ok     *)
(* response, "done" and "failed" after it returned or threw); args, req,   *)
(* attempt, lastError and resp are its parameters and locals, which a call *)
(* that has ended no longer has.  The other fields record what the call    *)
(* did: inflight counts the fetches not yet settled, fetches the calls of  *)
(* fetch, sleeps the calls of sleep, delay the argument of the sleep in    *)
(* progress, prevBackoff the delay of the sleep before it when that delay  *)
(* was not taken from a header, sent the argument of the last fetch,       *)
(* received the list of the response the operation read, rejected the      *)
(* error the last rejected fetch rejected with.                            *)
(***************************************************************************)
CallIds == {"c1", "c2"}

IdleCall ==
    [pc |-> "idle", op |-> "none", args |-> None, req |-> None,
     attempt |-> 0, lastError |-> None, resp |-> None,
     inflight |-> 0, fetches |-> 0, sleeps |-> 0, delay |-> None,
     prevBackoff |-> None, sent |-> None, received |-> None,
     rejected |-> None, signal |-> None, result |-> None, error |-> None]

\* the call's frame is gone: it returned or threw
EndFrame(cr) ==
    [cr EXCEPT !.attempt = 0, !.lastError = None, !.resp = None,
               !.delay = None, !.prevBackoff = None, !.signal = None]

Throw(cr, err) == [EndFrame(cr) EXCEPT !.pc = "failed", !.error = Some(err)]

Return(cr, value) == [EndFrame(cr) EXCEPT !.pc = "done", !.result = Some(value)]

\* the error thrown after the loop (line 225)
AfterLoopError(cr) ==
    OrElse(cr.lastError, LangblyError(Plain("Request failed"), 0, ""))

\* the error thrown when the last attempt rejected (lines 197-201)
ConnectionError(cl, lastError) ==
    LangblyError([tmpl |-> "attempts", attempts |-> cl.maxRetries + 1,
                  text |-> lastError.message.text],
                 0, "CONNECTION_ERROR")

\* AbortSignal.timeout(ms), created in the iteration of attempt (line 188)
AbortSignalTimeout(ms, attempt) == [ms |-> ms, attempt |-> attempt, aborted |-> FALSE]

\* the signal after its timer aborted it
Abort(signal) == [signal EXCEPT !.aborted = TRUE]

\* one signal made for the first attempt and handed to every later fetch
LoopIteration_SharedSignal(cr, cl) ==
    IF LoopCond(cr.attempt, cl.maxRetries)
    THEN [cr EXCEPT !.pc = "fetch", !.resp = None, !.delay = None,
                    !.inflight = @ + 1, !.fetches = @ + 1,
                    !.sent = Some(FetchArgs(cl, cr.req[1])),
                    !.signal = IF cr.signal = None
                               THEN Some(AbortSignalTimeout(cl.timeout, cr.attempt))
                               ELSE cr.signal]
    ELSE Throw(cr, AfterLoopError(cr))

\* the head of the loop of fetchWithRetry, to the await of fetch (lines 181-189)
LoopIteration(cr, cl) ==
    IF LoopCond(cr.attempt, cl.maxRetries)
    THEN [cr EXCEPT !.pc = "fetch", !.resp = None, !.delay = None,
                    !.inflight = @ + 1, !.fetches = @ + 1,
                    !.sent = Some(FetchArgs(cl, cr.req[1])),
                    !.signal = Some(AbortSignalTimeout(cl.timeout, cr.attempt))]
    ELSE Throw(cr, AfterLoopError(cr))

\* fetchWithRetry(url, init), to its first await (lines 173-189)
fetchWithRetry(cr, cl, url, init) ==
    LoopIteration([cr EXCEPT !.req = Some([url |-> url, init |-> init,
                                           headers |-> RequestHeaders(cl, init)]),
                             !.lastError = None, !.attempt = 0,
                             !.signal = None],
                  cl)

\* postWithRetry(path, body), to its first await (lines 161-165)
postWithRetry(cr, cl, path, body) ==
    fetchWithRetry(cr, cl, cl.baseUrl \o path, PostInit(body))

(***************************************************************************)
(* The operations.  Each action is the code from one await to the next.    *)
(***************************************************************************)
NoTopts == [target |-> "", source |-> None, format |-> None]

NoLopts == [target |-> None]

Args(text, topts, lopts) == [text |-> text, topts |-> topts, lopts |-> lopts]

\* client.translate(text, options), to the await of the first fetch
translate(c, text, topts) ==
    /\ client # None
    /\ calls[c].pc = "idle"
    /\ calls' = [calls EXCEPT ![c] =
          postWithRetry([@ EXCEPT !.op = "translate",
                                  !.args = Some(Args(text, topts, NoLopts))],
                        client[1], TRANSLATE_PATH, TranslateBody(text, topts))]
    /\ UNCHANGED <<options, client>>

\* client.detect(text), to the await of the first fetch
detect(c, str) ==
    /\ client # None
    /\ calls[c].pc = "idle"
    /\ calls' = [calls EXCEPT ![c] =
          postWithRetry([@ EXCEPT !.op = "detect",
                                  !.args = Some(Args(StringText(str), NoTopts, NoLopts))],
                        client[1], DETECT_PATH, DetectBody(str))]
    /\ UNCHANGED <<options, client>>

\* client.languages(options), to the await of the first fetch
languages(c, lopts) ==
    /\ client # None
    /\ calls[c].pc = "idle"
    /\ calls' = [calls EXCEPT ![c] =
          fetchWithRetry([@ EXCEPT !.op = "languages",
                                   !.args = Some(Args(StringText(""), NoTopts, lopts))],
                         client[1], client[1].baseUrl \o LanguagesUrl(lopts), GetInit)]
    /\ UNCHANGED <<options, client>>

\* the catch branch (lines 190-202): the fetch rejected with err
\* a catch branch that gives up at the first rejection
AfterReject_NoRetry(cr, cl, err) ==
    Throw([cr EXCEPT !.inflight = @ - 1, !.lastError = Some(err),
                     !.rejected = Some(err)],
          ConnectionError(cl, err))

\* the signal of the attempt that rejected: aborted when the rejection is its timeout
SignalAfter(cr, err) ==
    IF err.cls = "TimeoutError" THEN Some(Abort(cr.signal[1])) ELSE cr.signal

AfterReject(cr, cl, err) ==
    LET cr1 == [cr EXCEPT !.inflight = @ - 1, !.lastError = Some(err),
                          !.rejected = Some(err), !.signal = SignalAfter(cr, err)]
    IN  IF CanRetry(cr.attempt, cl.maxRetries)
        THEN [cr1 EXCEPT !.pc = "sleep", !.sleeps = @ + 1,
                         !.delay = Some(backoffDelay(cr.attempt))]
        ELSE Throw(cr1, ConnectionError(cl, err))

\* the retry branch without its await: the next attempt starts at once
AfterResponse_SleepNotAwaited(cr, cl, resp) ==
    LET cr1 == [cr EXCEPT !.inflight = @ - 1, !.resp = Some(resp)]
    IN  IF Ok(resp) THEN [cr1 EXCEPT !.pc = "body"]
        ELSE IF ~IsRetriable(resp.status) THEN [cr1 EXCEPT !.pc = "errbody"]
        ELSE IF CanRetry(cr.attempt, cl.maxRetries)
        THEN LoopIteration([cr1 EXCEPT !.sleeps = @ + 1, !.attempt = @ + 1], cl)
        ELSE [cr1 EXCEPT !.pc = "errbody"]

\* lines 204-221: the fetch resolved with resp
AfterResponse(cr, cl, resp) ==
    LET cr1 == [cr EXCEPT !.inflight = @ - 1, !.resp = Some(resp)]
    IN  IF Ok(resp) THEN [cr1 EXCEPT !.pc = "body"]
        ELSE IF ~IsRetriable(resp.status) THEN [cr1 EXCEPT !.pc = "errbody"]
        ELSE IF CanRetry(cr.attempt, cl.maxRetries)
        THEN [cr1 EXCEPT !.pc = "sleep", !.sleeps = @ + 1,
                         !.delay = Some(getRetryDelay(resp, cr.attempt))]
        ELSE [cr1 EXCEPT !.pc = "errbody"]

\* a sleep whose promise is never resolved: the call stays in its await
AfterSleep_NeverResumes(cr, cl) == cr

\* the sleep is over (continue, attempt++, the head of the loop)
AfterSleep(cr, cl) ==
    LoopIteration(
        [cr EXCEPT !.attempt = @ + 1,
                   !.prevBackoff = IF cr.resp # None /\ UsesRetryAfter(cr.resp[1])
                                   THEN None ELSE cr.delay],
        cl)

\* the operation's code after resp.json() settled (lines 110-118, 128-132, 149-154)
AfterBody(cr, body) ==
    IF body.kind = "reject" THEN Throw(cr, body.err[1])
    ELSE IF body.kind = "malformed" \/ (cr.op = "detect" /\ body.list = <<>>)
    THEN Throw(cr, RawError("TypeError", "Cannot read properties of undefined"))
    ELSE LET cr1 == [cr EXCEPT !.received = Some(body.list)]
         IN  IF cr.op = "translate"
             THEN Return(cr1, TranslateResult(cr.args[1].text, cr.args[1].topts, body.list))
             ELSE IF cr.op = "detect" THEN Return(cr1, DetectResult(body.list))
             ELSE Return(cr1, LanguagesResult(body.list))

FetchRejects(c, err) ==
    /\ calls[c].pc = "fetch"
    /\ calls' = [calls EXCEPT ![c] = AfterReject(@, client[1], err)]
    /\ UNCHANGED <<options, client>>

FetchResolves(c, resp) ==
    /\ calls[c].pc = "fetch"
    /\ calls' = [calls EXCEPT ![c] = AfterResponse(@, client[1], resp)]
    /\ UNCHANGED <<options, client>>

\* the attempt counter kept in one place for all calls
SleepFires_SharedAttempt(c) ==
    /\ calls[c].pc = "sleep"
    /\ LET shared == CHOOSE n \in {calls[d].attempt : d \in CallIds} :
                         \A d \in CallIds : calls[d].attempt <= n
       IN  calls' = [calls EXCEPT ![c] = AfterSleep([@ EXCEPT !.attempt = shared], client[1])]
    /\ UNCHANGED <<options, client>>

SleepFires(c) ==
    /\ calls[c].pc = "sleep"
    /\ calls' = [calls EXCEPT ![c] = AfterSleep(@, client[1])]
    /\ UNCHANGED <<options, client>>

\* throwForStatus after its resp.json() settled (lines 231-247)
ErrorBodySettles(c, errBody) ==
    /\ calls[c].pc = "errbody"
    /\ calls' = [calls EXCEPT ![c] = Throw(@, throwForStatus(@.resp[1], errBody))]
    /\ UNCHANGED <<options, client>>

\* resp.json() of an ok response settled (lines 166 and 147)
BodySettles(c, body) ==
    /\ calls[c].pc = "body"
    /\ calls' = [calls EXCEPT ![c] = AfterBody(@, body)]
    /\ UNCHANGED <<options, client>>

(***************************************************************************)
(* The inputs: the options of the constructor, the arguments of the        *)
(* operations, and what the network answers.                               *)
(***************************************************************************)
SeqsUpTo(S, n) == UNION {[1..k -> S] : k \in 0..n}

MaxRetriesChoices == {None} \cup {Some(m) : m \in (0 - NegRetries)..MaxRetriesBound}

FewMaxRetriesChoices == {None, Some(0 - 1), Some(0), Some(1)}

OptionsOf(keys, urls, timeouts, retries) ==
    [apiKey : keys, baseUrl : urls, timeout : timeouts, maxRetries : retries]

ApiKeyChoices == {None, Some(""), Some("key")}

BaseUrlChoices == {None, Some(<<"https://example.test", "/">>)}

TimeoutChoices == {None, Some(5000)}

Texts == {StringText("a")} \cup {ArrayText(q) : q \in SeqsUpTo({"a", "b"}, MaxTexts)}

FewTexts == {StringText("a"), ArrayText(<<"a", "b">>)}

ToptsChoices ==
    {[target |-> "nl", source |-> None, format |-> None],
     [target |-> "nl", source |-> Some("en"), format |-> Some("html")],
     [target |-> "nl", source |-> Some(""), format |-> Some("text")]}

FewToptsChoices == {[target |-> "nl", source |-> None, format |-> None]}

LoptsChoices == {[target |-> None], [target |-> Some("en")]}

\* Retry-After headers: absent, empty, 0, 2, 45, 1.5, -1 and a date
RetryAfterChoices ==
    {None, Some(<<>>), Some(<<"0">>), Some(<<"2">>), Some(<<"4", "5">>),
     Some(<<"1", ".", "5">>), Some(<<"-", "1">>),
     Some(<<"W", "e", "d", ",", " ", "2", "1">>)}

Response(status, retryAfter) == [status |-> status, retryAfter |-> retryAfter]

Responses ==
    {Response(st, None) : st \in {200, 400, 401, 403, 404}}
        \cup {Response(st, h) : st \in {429, 503}, h \in RetryAfterChoices}
        \cup {Response(st, h) : st \in {500, 502, 504}, h \in {None, Some(<<"2">>)}}

FewResponses ==
    {Response(200, None), Response(404, None), Response(503, None),
     Response(429, Some(<<"2">>))}

\* what fetch rejects with: a network error, or the abort of AbortSignal.timeout
RejectErrors ==
    {RawError("TypeError", "fetch failed"),
     RawError("TimeoutError", "The operation was aborted due to timeout")}

FewRejectErrors == {RawError("TypeError", "fetch failed")}

ErrBodies ==
    {[parsed |-> FALSE, message |-> None, status |-> None],
     [parsed |-> TRUE, message |-> None, status |-> None],
     [parsed |-> TRUE, message |-> Some("quota exceeded"), status |-> Some("SOME_STATUS")]}

DataBody(list) == [kind |-> "data", list |-> list, err |-> None]

RejectBody(err) == [kind |-> "reject", list |-> <<>>, err |-> Some(err)]

TranslationItems ==
    {[translatedText |-> "x", detectedSourceLanguage |-> Some("de"), model |-> Some("m1")],
     [translatedText |-> "y", detectedSourceLanguage |-> None, model |-> None]}

DetectionItems ==
    {[language |-> "fr", confidence |-> Some(1)],
     [language |-> "de", confidence |-> None]}

LanguageItems ==
    {[language |-> "en", name |-> Some("English")],
     [language |-> "nl", name |-> None]}

ItemsOf(op) ==
    IF op = "translate" THEN TranslationItems
    ELSE IF op = "detect" THEN DetectionItems
    ELSE LanguageItems

\* what resp.json() of an ok response can settle to, for a call of op
Bodies(op) ==
    {DataBody(list) : list \in SeqsUpTo(ItemsOf(op), MaxTexts)}
        \cup {[kind |-> "malformed", list |-> <<>>, err |-> None]}
        \cup {RejectBody(e) : e \in
                {RawError("SyntaxError", "Unexpected token < in JSON"),
                 RawError("TimeoutError", "The operation was aborted due to timeout")}}

(***************************************************************************)
(* The specifications.  Spec follows one call through every argument and   *)
(* every answer of the network, for every maxRetries; SpecPair interleaves *)
(* two calls on one client.                                                *)
(***************************************************************************)
InitWith(opts) ==
    /\ options \in opts
    /\ client = Construct(options)
    /\ calls = [c \in CallIds |-> IdleCall]

Step(C, texts, topts, responses, rejects) ==
    \E c \in C :
        \/ \E t \in texts, o \in topts : translate(c, t, o)
        \/ detect(c, "a")
        \/ \E l \in LoptsChoices : languages(c, l)
        \/ \E e \in rejects : FetchRejects(c, e)
        \/ \E r \in responses : FetchResolves(c, r)
        \/ SleepFires(c)
        \/ \E b \in ErrBodies : ErrorBodySettles(c, b)
        \/ \E b \in Bodies(calls[c].op) : BodySettles(c, b)

Init ==
    InitWith(OptionsOf(ApiKeyChoices, {None}, {None}, MaxRetriesChoices)
             \cup OptionsOf({Some("key")}, BaseUrlChoices, TimeoutChoices, {None}))

Next == Step({"c1"}, Texts, ToptsChoices, Responses, RejectErrors)

Spec == Init /\ [][Next]_vars

InitPair ==
    InitWith(OptionsOf({Some("key")}, BaseUrlChoices, {None}, FewMaxRetriesChoices))

NextPair == Step(CallIds, FewTexts, FewToptsChoices, FewResponses, FewRejectErrors)

SpecPair == InitPair /\ [][NextPair]_vars

\* what the runtime does for a call that is waiting: the fetch settles (the
\* signal of AbortSignal.timeout rejects it when nothing else does), the timer
\* of sleep fires, resp.json() settles (the same signal aborts the body read)
Settles(c) ==
    \/ \E e \in RejectErrors : FetchRejects(c, e)
    \/ \E r \in Responses : FetchResolves(c, r)
    \/ SleepFires(c)
    \/ \E b \in ErrBodies : ErrorBodySettles(c, b)
    \/ \E b \in Bodies(calls[c].op) : BodySettles(c, b)

\* Spec, with every pending await of a call eventually settled
SpecFair == Init /\ [][Next]_vars /\ \A c \in CallIds : WF_vars(Settles(c))

(***************************************************************************)
(* The claims.                                                             *)
(***************************************************************************)
Max(a, b) == IF a >= b THEN a ELSE b

Made(c) == calls[c].pc # "idle"

C2_AutoRetry ==
    [][\A c \in CallIds :
        LET a == calls[c]
            b == calls'[c]
        IN  /\ ( /\ a.pc = "fetch"
                 /\ b.resp # None
                 /\ b.resp[1].status \in {429, 500, 502, 503, 504}
                 /\ a.fetches - 1 < client[1].maxRetries )
               => (b.pc = "sleep" /\ b.error = None /\ b.sleeps = a.sleeps + 1)
            /\ (a.pc = "sleep" /\ b # a)
               => (b.pc = "fetch" /\ b.fetches = a.fetches + 1 /\ b.inflight = 1)
            /\ (a.pc = "fetch" /\ b.resp # None /\ b.resp[1].status \in 200..299)
               => (b.pc = "body" /\ b.fetches = a.fetches /\ b.sleeps = a.sleeps)
            /\ a.pc \in {"body", "done"}
               => ( /\ b.pc \in {"body", "done", "failed"}
                    /\ b.fetches = a.fetches
                    /\ b.sleeps = a.sleeps
                    /\ b.inflight = 0 )
      ]_vars

\* a call that got 503 on its second attempt and sleeps before a third
C2_Witness ==
    \E c \in CallIds :
        /\ calls[c].pc = "sleep"
        /\ calls[c].resp # None
        /\ calls[c].resp[1].status = 503
        /\ calls[c].fetches = 2

StatedSeconds(header) ==
    CASE header = Some(<<"0">>) -> Some(0)
      [] header = Some(<<"2">>) -> Some(2000)
      [] header = Some(<<"4", "5">>) -> Some(45000)
      [] header = Some(<<"1", ".", "5">>) -> Some(1500)
      [] header = Some(<<"-", "1">>) -> Some(0 - 1000)
      [] OTHER -> None

\* 500, 1000, 2000, ...: each delay double the one before, up to the ceiling
RECURSIVE Doubling(_)
Doubling(k) == IF k = 0 THEN 500 ELSE Min(2 * Doubling(k - 1), 10000)

\* C4: a failing response with status 401 is reported as AuthenticationError (401,
\* UNAUTHENTICATED); one with status 429 as RateLimitError (429, RATE_LIMITED)
\* whose retryAfter is the Retry-After header as a number of seconds, or null when
\* the header is absent or spells no finite number; one with any other status s as
\* a plain LangblyError whose status is s.
C4_StatusMapping ==
    [][\A c \in CallIds :
        (calls[c].pc = "errbody" /\ calls'[c].pc = "failed")
        => LET r == calls[c].resp[1]
               e == calls'[c].error[1]
               secs == StatedSeconds(r.retryAfter)
           IN  /\ r.status = 401
                  => ( /\ e.cls = "AuthenticationError"
                       /\ e.status = 401
                       /\ e.code = "UNAUTHENTICATED" )
               /\ r.status = 429
                  => ( /\ e.cls = "RateLimitError"
                       /\ e.status = 429
                       /\ e.code = "RATE_LIMITED"
                       /\ secs = None => e.retryAfter = None
                       /\ secs # None
                          => ( /\ e.retryAfter # None
                               /\ e.retryAfter[1].kind = "finite"
                               /\ e.retryAfter[1].milli = secs[1] ) )
               /\ r.status \notin {401, 429}
                  => (e.cls = "LangblyError" /\ e.status = r.status)
      ]_vars

\* a call that failed with a RateLimitError whose retryAfter is 45 seconds
C4_Witness ==
    \E c \in CallIds :
        /\ calls[c].pc = "failed"
        /\ calls[c].error[1].cls = "RateLimitError"
        /\ calls[c].error[1].retryAfter = Some(Finite(45000))

\* no usable Retry-After hint applies to the sleep of call c
NoHint(c) ==
    calls[c].resp = None \/ StatedSeconds(calls[c].resp[1].retryAfter) = None

\* C5: when no usable Retry-After hint applies, the sleep after failed attempt k is
\* min(500 * 2^k, 10000) ms: 500, 1000, 2000, ..., each double the one before up to
\* the cap, non-decreasing and never above 10000 ms; after a network error as
\* after a retriable status.
C5_DoublingDelay ==
    \A c \in CallIds :
        (calls[c].pc = "sleep" /\ NoHint(c))
        => /\ calls[c].delay = Some(Doubling(calls[c].attempt))
           /\ calls[c].delay[1] <= 10000
           /\ calls[c].prevBackoff # None
              => /\ calls[c].delay[1] = Min(2 * calls[c].prevBackoff[1], 10000)
                 /\ calls[c].delay[1] >= calls[c].prevBackoff[1]

\* a call that, after a retriable status without a usable hint, sleeps the capped
\* 10000 ms, its sleep before having been 8000 ms
C5_Witness ==
    \E c \in CallIds :
        /\ calls[c].pc = "sleep"
        /\ calls[c].resp # None
        /\ NoHint(c)
        /\ calls[c].delay = Some(10000)
        /\ calls[c].prevBackoff = Some(8000)

\* C6: when a retriable response that will be retried carries a Retry-After header
\* whose value v is a finite number, the sleep before the next attempt is
\* min(v * 1000, 30000) ms; when the header is absent, empty or not a finite
\* number, it is the exponential backoff delay.
C6_RetryAfterHonored ==
    \A c \in CallIds :
        (calls[c].pc = "sleep" /\ calls[c].resp # None)
        => LET secs == StatedSeconds(calls[c].resp[1].retryAfter)
           IN  /\ secs # None => calls[c].delay = Some(Min(secs[1], 30000))
               /\ secs = None => calls[c].delay = Some(Doubling(calls[c].attempt))

\* a call that got Retry-After: 45 and sleeps the capped 30000 ms
C6_Witness ==
    \E c \in CallIds :
        /\ calls[c].pc = "sleep"
        /\ calls[c].resp # None
        /\ calls[c].resp[1].retryAfter = Some(<<"4", "5">>)
        /\ calls[c].delay = Some(30000)

\* C7: within one call a new fetch starts only after the attempt before it has
\* settled and the sleep that follows it has completed; a call never has two
\* fetches in flight.
C7_OneRequestAtATime ==
    /\ [](\A c \in CallIds :
            /\ calls[c].inflight \in {0, 1}
            /\ calls[c].inflight = 1 <=> calls[c].pc = "fetch")
    /\ [][\A c \in CallIds :
            calls'[c].fetches # calls[c].fetches
            => /\ calls'[c].fetches = calls[c].fetches + 1
               /\ calls[c].inflight = 0
               /\ calls'[c].inflight = 1
               /\ calls[c].pc \in {"idle", "sleep"}
               /\ calls[c].pc = "idle" <=> calls[c].fetches = 0
         ]_vars

\* a call whose third fetch is in flight, alone
C7_Witness ==
    \E c \in CallIds :
        /\ calls[c].pc = "fetch"
        /\ calls[c].fetches = 3
        /\ calls[c].sleeps = 2
        /\ calls[c].inflight = 1

\* the delay a call sleeps, from its own response and its own attempt counter
OwnDelay(c) ==
    IF NoHint(c) THEN Doubling(calls[c].attempt)
    ELSE Min(StatedSeconds(calls[c].resp[1].retryAfter)[1], 30000)

\* C8: no operation changes the client's apiKey, baseUrl, timeout or maxRetries, and
\* the attempt counter and the last error are each call's own: in every
\* interleaving of two calls on one client a step of one call leaves the other
\* call as it was, and each call's attempts and delays follow from its own
\* counter and its own responses.
C8_NoSharedState ==
    /\ [](\A c \in CallIds :
            /\ calls[c].pc = "fetch"
               => /\ calls[c].fetches = calls[c].attempt + 1
                  /\ calls[c].sleeps = calls[c].attempt
            /\ calls[c].pc = "sleep"
               => /\ calls[c].fetches = calls[c].attempt + 1
                  /\ calls[c].sleeps = calls[c].attempt + 1
                  /\ calls[c].delay = Some(OwnDelay(c))
                  /\ calls[c].resp = None => calls[c].lastError # None)
    /\ [][ /\ client' = client
           /\ options' = options
           /\ \A c \in CallIds, d \in CallIds :
                (c # d /\ calls'[c] # calls[c]) => calls'[d] = calls[d]
           /\ \A c \in CallIds :
                (calls[c].pc = "sleep" /\ calls'[c] # calls[c])
                => /\ calls'[c].attempt = calls[c].attempt + 1
                   /\ calls'[c].lastError = calls[c].lastError
         ]_vars

\* two calls in progress on one client, at different attempts
C8_Witness ==
    /\ calls["c1"].pc = "sleep"
    /\ calls["c1"].attempt = 0
    /\ calls["c2"].pc = "fetch"
    /\ calls["c2"].attempt = 1

\* C9: every failure caused by the HTTP exchange (a network error, the per-request
\* timeout, a failing status) reaches the caller as a LangblyError, a RateLimitError
\* or an AuthenticationError.  The two failures that are not the exchange's, a body
\* that is not JSON and JSON without the expected fields, are left out.
C9_TypedErrors ==
    \A c \in CallIds :
        calls[c].pc = "failed"
        => \/ calls[c].error[1].cls \in
                {"LangblyError", "RateLimitError", "AuthenticationError"}
           \/ calls[c].error[1] \in
                {RawError("SyntaxError", "Unexpected token < in JSON"),
                 RawError("TypeError", "Cannot read properties of undefined")}

\* C10: translate with an array of n texts sends all n texts in the q member of one
\* POST per attempt and returns the server's translations as an array in the
\* server's order; translate with one string sends q as a one-element array and
\* returns the first translation as one object (undefined when the server sent
\* none).
C10_BatchPassThrough ==
    \A c \in CallIds :
        (calls[c].op = "translate" /\ calls[c].sent # None)
        => LET text == calls[c].args[1].text
               q    == calls[c].sent[1].body[1][1]
           IN  /\ calls[c].sent[1].method = "POST"
               /\ q.key = "q"
               /\ q.value.t = "array"
               /\ text.isArray => q.value.a = text.items
               /\ ~text.isArray => q.value.a = <<text.str>>
               /\ calls[c].pc \in {"fetch", "sleep", "body", "errbody"}
                  => calls[c].fetches = calls[c].attempt + 1
               /\ calls[c].pc = "done"
                  => LET list == calls[c].received[1]
                         r    == calls[c].result[1]
                     IN  /\ text.isArray
                            => /\ r.kind = "array"
                               /\ Len(r.items) = Len(list)
                               /\ \A i \in 1..Len(list) :
                                    r.items[i].text = list[i].translatedText
                         /\ (~text.isArray /\ Len(list) > 0)
                            => /\ r.kind = "object"
                               /\ r.items[1].text = list[1].translatedText
                         /\ (~text.isArray /\ Len(list) = 0) => r.kind = "undefined"

\* a batch of two texts, sent whole on each of two attempts, answered in order
C10_Witness ==
    \E c \in CallIds :
        /\ calls[c].pc = "done"
        /\ calls[c].op = "translate"
        /\ calls[c].args[1].text = ArrayText(<<"a", "b">>)
        /\ calls[c].fetches = 2
        /\ calls[c].sent[1].body[1][1].value.a = <<"a", "b">>
        /\ Len(calls[c].received[1]) = 2
        /\ calls[c].received[1][1].translatedText = "y"
        /\ calls[c].result[1].items[1].text = "y"
        /\ calls[c].result[1].items[2].text = "x"


\* C11: constructing a client with a missing or an empty apiKey throws and yields no
\* client, on which no call is ever made; every client that exists has the
\* non-empty apiKey it was given, and every fetch it issues carries the header
\* Authorization: Bearer <that apiKey>.
C11_ApiKeyRequired ==
    /\ options.apiKey \in {None, Some("")}
       => (client = None /\ \A c \in CallIds : calls[c] = IdleCall)
    /\ client # None
       => /\ client[1].apiKey # ""
          /\ options.apiKey = Some(client[1].apiKey)
          /\ \A c \in CallIds :
                calls[c].sent # None
                => calls[c].sent[1].headers.Authorization
                       = <<"Bearer ", client[1].apiKey>>

\* the second fetch of a call on a client made with the key "key"
C11_Witness ==
    \E c \in CallIds :
        /\ client # None
        /\ calls[c].pc = "fetch"
        /\ calls[c].fetches = 2
        /\ calls[c].sent[1].headers.Authorization = <<"Bearer ", "key">>


\* C12: a fetch that rejects (a network error, a timeout) is followed by a backoff
\* sleep and another attempt while fewer than maxRetries retries have been made;
\* when the last allowed attempt rejects, the call throws a LangblyError with
\* status 0 and code CONNECTION_ERROR whose message reports maxRetries + 1
\* attempts and the message of the last error.
C12_NetworkErrorsRetried ==
    [][\A c \in CallIds :
        LET a == calls[c]
            b == calls'[c]
        IN  /\ (a.pc = "fetch" /\ b.pc \in {"sleep", "failed"} /\ b.resp = None)
               => /\ b.rejected # None
                  /\ b.inflight = 0
                  /\ a.fetches - 1 < client[1].maxRetries
                     => /\ b.pc = "sleep"
                        /\ b.delay = Some(Doubling(a.attempt))
                        /\ b.sleeps = a.sleeps + 1
                  /\ a.fetches - 1 >= client[1].maxRetries
                     => /\ b.pc = "failed"
                        /\ b.error[1].cls = "LangblyError"
                        /\ b.error[1].status = 0
                        /\ b.error[1].code = "CONNECTION_ERROR"
                        /\ b.error[1].message.tmpl = "attempts"
                        /\ b.error[1].message.attempts = client[1].maxRetries + 1
                        /\ b.error[1].message.attempts = b.fetches
                        /\ b.error[1].message.text = b.rejected[1].message.text
            /\ (a.pc = "sleep" /\ a.resp = None /\ b # a)
               => (b.pc = "fetch" /\ b.fetches = a.fetches + 1)
      ]_vars

\* a call with the default maxRetries whose third attempt timed out
C12_Witness ==
    \E c \in CallIds :
        /\ options.maxRetries = None
        /\ calls[c].pc = "failed"
        /\ calls[c].fetches = 3
        /\ calls[c].error[1].code = "CONNECTION_ERROR"
        /\ calls[c].error[1].message.attempts = 3
        /\ calls[c].error[1].message.text = "The operation was aborted due to timeout"


\* C13: for every maxRetries the constructor accepts, fetchWithRetry returns or
\* throws from inside its loop: the throw placed after the loop ("Should not reach
\* here") is never executed, and no call fails without having performed at least
\* one fetch.
C13_ThrowAfterLoopUnreached ==
    \A c \in CallIds :
        calls[c].pc = "failed"
        => /\ calls[c].fetches >= 1
           /\ calls[c].error[1] # LangblyError(Plain("Request failed"), 0, "")


\* C14: every delay a call passes to sleep is at least 0 ms and at most 30000 ms,
\* for every retriable response and every Retry-After header, and at most 10000 ms
\* when it comes from the exponential backoff.
C14_DelayWithinBounds ==
    \A c \in CallIds :
        calls[c].pc = "sleep"
        => /\ calls[c].delay[1] >= 0
           /\ calls[c].delay[1] <= 30000
           /\ NoHint(c) => calls[c].delay[1] <= 10000


\* C15: under SpecFair, where every fetch settles and every sleep timer fires,
\* each call of translate, detect or languages that was made eventually
\* returns a result or throws, for every maxRetries of the constructor.
C15_EveryCallTerminates ==
    \A c \in CallIds :
        (calls[c].pc # "idle") ~> (calls[c].pc \in {"done", "failed"})

\* a call that returned after three retries, each awaited in turn
C15_Witness ==
    \E c \in CallIds :
        /\ client # None /\ client[1].maxRetries = 3
        /\ calls[c].pc = "done"
        /\ calls[c].fetches = 4
        /\ calls[c].sleeps = 3


\* C16: every attempt of a call hands fetch the same URL, method, body and
\* headers as the attempt before it, and its own signal: one created in this
\* iteration, with the configured timeout (30000 ms when none is configured) and
\* not aborted, whatever happened to the signals of the earlier attempts.
C16_SameRequestFreshTimeout ==
    [][\A c \in CallIds :
          /\ (calls[c].sent # None /\ calls'[c].sent # None)
             => /\ calls'[c].sent[1].url = calls[c].sent[1].url
                /\ calls'[c].sent[1].method = calls[c].sent[1].method
                /\ calls'[c].sent[1].body = calls[c].sent[1].body
                /\ calls'[c].sent[1].headers = calls[c].sent[1].headers
          /\ calls'[c].pc = "fetch"
             => /\ calls'[c].signal # None
                /\ ~calls'[c].signal[1].aborted
                /\ calls'[c].signal[1].attempt = calls'[c].fetches - 1
                /\ options.timeout = None => calls'[c].signal[1].ms = 30000
                /\ options.timeout # None => calls'[c].signal[1].ms = options.timeout[1]
          /\ (calls[c].pc = "sleep" /\ calls'[c].pc = "fetch")
             => calls'[c].signal[1].attempt = calls[c].signal[1].attempt + 1
      ]_vars

\* the third attempt of a call in flight under a timeout of 5000 ms, after the
\* second attempt was aborted by its own timeout
C16_Witness ==
    \E c \in CallIds :
        /\ calls[c].pc = "fetch"
        /\ calls[c].fetches = 3
        /\ calls[c].lastError # None
        /\ calls[c].lastError[1].cls = "TimeoutError"
        /\ calls[c].signal = Some([ms |-> 5000, attempt |-> 2, aborted |-> FALSE])

====
